---- MODULE Spec2Model ----
(***************************************************************************)
(* Model of frozengame's mesh -> GPU-buffer builder (src/src/model.rs) and *)
(* the facade that creates it (src/src/lib.rs).                            *)
(*                                                                         *)
(* Rust values are modelled as follows:                                    *)
(*   Option<T>      None = << >>, Some(x) = << x >>                        *)
(*   Vec<T>         a sequence                                             *)
(*   f32            an integer token (the code only copies floats)         *)
(*   Arc<Queue>, Arc<GraphicsPipeline>, descriptor sets, DynamicState      *)
(*                  opaque handles (strings)                               *)
(*   a device buffer  an entry of `buffers`, named by its position         *)
(*   a panic        pc = "panicked"                                        *)
(***************************************************************************)
EXTENDS Integers, Sequences, FiniteSets, TLC

VARIABLES
    queue,      \* ModelBuilder.queue
    meshes,     \* ModelBuilder.meshes : Option<Vec<Mesh>>
    pipeline,   \* ModelBuilder.pipeline
    pc,         \* "building" | "built" | "missing" | "panicked"
    buffers,    \* device buffers created by ImmutableBuffer::from_iter, in order
    model,      \* Option<Model>: the value build() returned
    cmd_buf,    \* Option<AutoCommandBufferBuilder>: Some(recordings), None once a draw returned Err
    last,       \* history: the last with_* call (Option): was the source opened, what the
                \* parse returned, did the call return (FALSE: it panicked)
    prev,       \* history: how many vertices the builder held before the last with_* call (Option)
    anyParsed,  \* history: some with_obj call's parse returned Ok
    drawn       \* history: the descriptor sets passed to the draw calls that returned Ok

vars == <<queue, meshes, pipeline, pc, buffers, model, cmd_buf, last, prev, anyParsed, drawn>>

----------------------------------------------------------------------------
(* Bounds *)

\* most sub-meshes one parsed OBJ source yields
MaxMeshes == 2
\* most draws recorded into the command buffer
MaxDraws == 2

----------------------------------------------------------------------------
(* Option and Result *)

None == << >>
Some(x) == << x >>
IsNone(o) == o = None
Unwrap(o) == o[1]

----------------------------------------------------------------------------
(* Handles supplied by the graphics collaborator *)

Queues == {"q1"}
Pipelines == {"p1", "p2"}
DescriptorSets == {"s1", "s2"}
DynamicStates == {"d1"}

----------------------------------------------------------------------------
(* Parsed OBJ input: tobj::Mesh values and tobj::load_obj_buf results *)

\* a tobj::Mesh with np position floats, nn normal floats and the given indices;
\* every float of a mesh is distinct, so a misplaced copy is visible
TobjMesh(np, nn, idx) ==
    [positions |-> [i \in 1..np |-> 10 + i],
     normals   |-> [i \in 1..nn |-> 50 + i],
     indices   |-> idx]

SrcLine == TobjMesh(6, 6, <<0, 1>>)
SrcTri == TobjMesh(9, 9, <<0, 1, 2>>)
SrcQuad == TobjMesh(12, 12, <<0, 1, 2, 2, 3, 0>>)
\* indices reach past the mesh's own vertices
SrcBadIdx == TobjMesh(6, 6, <<0, 1, 2>>)
\* an OBJ object without normals
SrcNoNormals == TobjMesh(9, 0, <<0, 1, 2>>)
\* more normals than positions
SrcLongNormals == TobjMesh(3, 6, <<0>>)

TobjMeshes == {SrcLine, SrcTri, SrcQuad, SrcBadIdx, SrcNoNormals, SrcLongNormals}

RECURSIVE SeqsUpTo(_, _)
SeqsUpTo(S, n) ==
    IF n = 0 THEN {<< >>}
    ELSE LET shorter == SeqsUpTo(S, n - 1)
         IN  shorter \cup {Append(s, x) : s \in {t \in shorter : Len(t) = n - 1}, x \in S}

\* what tobj::load_obj_buf can return: Err, or Ok(objects)
Ok(objects) == [ok |-> TRUE, objects |-> objects]
Err == [ok |-> FALSE, objects |-> << >>]
ParseResults == {Err} \cup {Ok(objs) : objs \in SeqsUpTo(TobjMeshes, MaxMeshes)}

----------------------------------------------------------------------------
(* Mesh converter: impl From<&tobj::Mesh> for Mesh<Vertex, u32> *)

Returned(v) == [panicked |-> FALSE, value |-> v]
Panicked(v) == [panicked |-> TRUE, value |-> v]

\* VertexAt with the last normal component read at offset 1 instead of 2
VertexAt_NormalOffsetSlip(mesh, i) ==
    [position |-> <<mesh.positions[i * 3 + 1],
                    mesh.positions[(i * 3) + 1 + 1],
                    mesh.positions[(i * 3) + 2 + 1]>>,
     normals  |-> <<mesh.normals[i * 3 + 1],
                    mesh.normals[(i * 3) + 1 + 1],
                    mesh.normals[(i * 3) + 1 + 1]>>]

\* Vertex { position: [f32; 3], normals: [f32; 3] }; slice.get(k) is s[k + 1]
VertexAt(mesh, i) ==
    [position |-> <<mesh.positions[i * 3 + 1],
                    mesh.positions[(i * 3) + 1 + 1],
                    mesh.positions[(i * 3) + 2 + 1]>>,
     normals  |-> <<mesh.normals[i * 3 + 1],
                    mesh.normals[(i * 3) + 1 + 1],
                    mesh.normals[(i * 3) + 2 + 1]>>]

\* for i in 0..(mesh.positions.len() / 3) { vertices.push(...) }
RECURSIVE FromLoop(_, _, _)
FromLoop(mesh, i, vertices) ==
    IF i >= Len(mesh.positions) \div 3 THEN vertices
    ELSE FromLoop(mesh, i + 1, Append(vertices, VertexAt(mesh, i)))

EmptyMesh == [vertices |-> << >>, indices |-> << >>]

\* FromTobjMesh without the assert_eq!: only a get(..).unwrap() past the end
\* of normals panics, so a mesh with spare normals converts
FromTobjMesh_NoAssert(mesh) ==
    IF Len(mesh.normals) < 3 * (Len(mesh.positions) \div 3) THEN Panicked(EmptyMesh)
    ELSE Returned([vertices |-> FromLoop(mesh, 0, << >>),
                   indices  |-> mesh.indices])

\* assert_eq!(positions.len(), normals.len()); then the loop; indices cloned
FromTobjMesh(mesh) ==
    IF Len(mesh.positions) # Len(mesh.normals) THEN Panicked(EmptyMesh)
    ELSE Returned([vertices |-> FromLoop(mesh, 0, << >>),
                   indices  |-> mesh.indices])

\* objects.into_iter().map(|model| model.clone().mesh.into()).collect_vec()
CollectMeshes(objects) ==
    LET conv == [i \in 1..Len(objects) |-> FromTobjMesh(objects[i])]
    IN  IF \E i \in 1..Len(objects) : conv[i].panicked
        THEN Panicked(<< >>)
        ELSE Returned([i \in 1..Len(objects) |-> conv[i].value])

----------------------------------------------------------------------------
(* ModelBuilder *)

\* ModelBuilder::new starting from an empty list instead of None
NewBuilder_EmptyList(q, p) == [queue |-> q, pipeline |-> p, meshes |-> Some(<< >>)]

\* ModelBuilder::new
NewBuilder(q, p) == [queue |-> q, pipeline |-> p, meshes |-> None]

\* FrozenGameInstance::build_model: ModelBuilder::new(graphics_queue, pipeline)
BuildModel(q, p) == NewBuilder(q, p)

\* with_obj appending the parsed meshes to the ones held
WithObjMeshes_Append(self, result) ==
    IF result.ok
    THEN Some((IF IsNone(self.meshes) THEN << >> ELSE Unwrap(self.meshes))
              \o CollectMeshes(result.objects).value)
    ELSE None

\* with_obj keeping the meshes held when the parse fails
WithObjMeshes_KeepOnErr(self, result) ==
    IF result.ok THEN Some(CollectMeshes(result.objects).value) ELSE self.meshes

\* the meshes field with_obj stores: result.map(convert all).ok()
WithObjMeshes(self, result) ==
    IF result.ok THEN Some(CollectMeshes(result.objects).value) ELSE None

\* ModelBuilder::with_obj: Self { meshes: ..., ..self }; the conversion runs
\* only on a parse that returned Ok, and a panic in it unwinds the call
WithObj(self, result) ==
    IF result.ok /\ CollectMeshes(result.objects).panicked
    THEN Panicked(self)
    ELSE Returned([queue    |-> self.queue,
                   pipeline |-> self.pipeline,
                   meshes   |-> WithObjMeshes(self, result)])

\* with_obj_path treating a source that cannot be opened as one that does not parse
WithObjPath_ClearOnOpenFail(self, opened, result) ==
    IF opened THEN WithObj(self, result) ELSE WithObj(self, Err)

\* ModelBuilder::with_obj_path: opened says whether File::open returned Ok
WithObjPath(self, opened, result) ==
    IF opened THEN WithObj(self, result) ELSE Returned(self)

\* the emptiness test taking an empty list for missing meshes
MeshesMissing_OrEmpty(self) == IsNone(self.meshes) \/ self.meshes = Some(<< >>)

\* self.meshes.is_none()
MeshesMissing(self) == IsNone(self.meshes)

\* flattening that keeps only the last mesh's vertices
FlattenVertices_LastOnly(ms) ==
    IF ms = << >> THEN << >> ELSE ms[Len(ms)].vertices

\* meshes.iter().flat_map(|mesh| mesh.vertices).collect_vec()
RECURSIVE FlattenVertices(_)
FlattenVertices(ms) ==
    IF ms = << >> THEN << >>
    ELSE Head(ms).vertices \o FlattenVertices(Tail(ms))

\* flattening that offsets each mesh's indices by the vertices before it
RECURSIVE RebasedFrom(_, _)
RebasedFrom(ms, base) ==
    IF ms = << >> THEN << >>
    ELSE [k \in 1..Len(Head(ms).indices) |-> Head(ms).indices[k] + base]
         \o RebasedFrom(Tail(ms), base + Len(Head(ms).vertices))

FlattenIndices_Rebased(ms) == RebasedFrom(ms, 0)

\* meshes.iter().flat_map(|mesh| mesh.indices).collect_vec()
RECURSIVE FlattenIndices(_)
FlattenIndices(ms) ==
    IF ms = << >> THEN << >>
    ELSE Head(ms).indices \o FlattenIndices(Tail(ms))

\* ImmutableBuffer::from_iter(data, usage, queue): the device buffer it creates
FromIter(data, usage, q) == [usage |-> usage, data |-> data, queue |-> q]

\* how the two uploads of one build() end; a failed upload is unwrapped
UploadOutcomes == {"ok", "vertex_upload_failed", "index_upload_failed"}

\* ModelBuilder::build, given the device buffers that exist (bufs) and how the
\* uploads end: the program position reached, the buffers and the Model
Build(self, bufs, outcome) ==
    IF MeshesMissing(self)
    THEN [pc |-> "missing", buffers |-> bufs, model |-> None]
    ELSE LET ms == Unwrap(self.meshes)
             vertex_buffer == FromIter(FlattenVertices(ms), "vertex_buffer", self.queue)
             index_buffer  == FromIter(FlattenIndices(ms), "index_buffer", self.queue)
         IN  CASE outcome = "vertex_upload_failed" ->
                    [pc |-> "panicked", buffers |-> bufs, model |-> None]
               [] outcome = "index_upload_failed" ->
                    [pc |-> "panicked", buffers |-> Append(bufs, vertex_buffer),
                     model |-> None]
               [] OTHER ->
                    [pc |-> "built",
                     buffers |-> bufs \o <<vertex_buffer, index_buffer>>,
                     model |-> Some([vertex_buffer |-> <<Len(bufs) + 1>>,
                                     index_buffer  |-> Len(bufs) + 2,
                                     pipeline      |-> self.pipeline])]

----------------------------------------------------------------------------
(* Model / Drawable *)

\* what AutoCommandBufferBuilder::draw_indexed appends
DrawIndexed(p, dynamic_state, vertex_buffer, index_buffer, sets) ==
    [pipeline |-> p, dynamic_state |-> dynamic_state,
     vertex_buffer |-> vertex_buffer, index_buffer |-> index_buffer,
     sets |-> sets, push_constants |-> << >>]

\* draw binding the index buffer where the vertex buffers belong
Draw_SwappedBuffers(m, cmd, dynamic_state, sets, accepted) ==
    IF accepted
    THEN Some(Append(cmd, DrawIndexed(m.pipeline, dynamic_state,
                                      <<m.index_buffer>>, m.index_buffer, sets)))
    ELSE None

\* Drawable::draw for Model: Ok(builder with the draw appended), or
\* Err(DrawIndexedError), which consumes the builder
Draw(m, cmd, dynamic_state, sets, accepted) ==
    IF accepted
    THEN Some(Append(cmd, DrawIndexed(m.pipeline, dynamic_state,
                                      m.vertex_buffer, m.index_buffer, sets)))
    ELSE None

\* RenderDrawable::draw_drawable for AutoCommandBufferBuilder
DrawDrawable(cmd, drawable, dynamic_state, sets, accepted) ==
    Draw(drawable, cmd, dynamic_state, sets, accepted)

----------------------------------------------------------------------------
(* The state machine *)

Self == [queue |-> queue, pipeline |-> pipeline, meshes |-> meshes]

NoCall == None

Init ==
    /\ \E q \in Queues, p \in Pipelines :
          LET b == BuildModel(q, p)
          IN  queue = b.queue /\ pipeline = b.pipeline /\ meshes = b.meshes
    /\ pc = "building"
    /\ buffers = << >>
    /\ model = None
    /\ cmd_buf = Some(<< >>)
    /\ last = NoCall
    /\ prev = None
    /\ anyParsed = FALSE
    /\ drawn = << >>

\* the number of vertices a builder's meshes hold, None when it has no meshes
Held(ms) == IF IsNone(ms) THEN None ELSE Some(Len(FlattenVertices(Unwrap(ms))))

\* the builder after a with_* call that returned r
Returns(r) ==
    /\ queue' = r.value.queue
    /\ pipeline' = r.value.pipeline
    /\ meshes' = r.value.meshes
    /\ pc' = IF r.panicked THEN "panicked" ELSE "building"

CallWithObj ==
    /\ pc = "building"
    /\ \E result \in ParseResults :
          /\ Returns(WithObj(Self, result))
          /\ last' = Some([opened |-> TRUE, parse |-> result,
                           returned |-> ~WithObj(Self, result).panicked])
          /\ anyParsed' = (anyParsed \/ result.ok)
    /\ prev' = Held(meshes)
    /\ UNCHANGED <<buffers, model, cmd_buf, drawn>>

CallWithObjPath ==
    /\ pc = "building"
    /\ \E opened \in BOOLEAN, result \in ParseResults :
          /\ ~opened => result = Err
          /\ Returns(WithObjPath(Self, opened, result))
          /\ last' = Some([opened |-> opened, parse |-> result,
                           returned |-> ~WithObjPath(Self, opened, result).panicked])
          /\ anyParsed' = (anyParsed \/ (opened /\ result.ok))
    /\ prev' = Held(meshes)
    /\ UNCHANGED <<buffers, model, cmd_buf, drawn>>

CallBuild ==
    /\ pc = "building"
    /\ \E outcome \in UploadOutcomes :
          LET r == Build(Self, buffers, outcome)
          IN  pc' = r.pc /\ buffers' = r.buffers /\ model' = r.model
    /\ UNCHANGED <<queue, meshes, pipeline, cmd_buf, last, prev, anyParsed, drawn>>

CallDraw ==
    /\ pc = "built"
    /\ ~IsNone(cmd_buf)
    /\ Len(Unwrap(cmd_buf)) < MaxDraws
    /\ \E d \in DynamicStates, sets \in DescriptorSets, accepted \in BOOLEAN :
          /\ cmd_buf' = Draw(Unwrap(model), Unwrap(cmd_buf), d, sets, accepted)
          /\ drawn' = IF accepted THEN Append(drawn, sets) ELSE drawn
    /\ UNCHANGED <<queue, meshes, pipeline, pc, buffers, model, last, prev, anyParsed>>

CallDrawDrawable ==
    /\ pc = "built"
    /\ ~IsNone(cmd_buf)
    /\ Len(Unwrap(cmd_buf)) < MaxDraws
    /\ \E d \in DynamicStates, sets \in DescriptorSets, accepted \in BOOLEAN :
          /\ cmd_buf' = DrawDrawable(Unwrap(cmd_buf), Unwrap(model), d, sets, accepted)
          /\ drawn' = IF accepted THEN Append(drawn, sets) ELSE drawn
    /\ UNCHANGED <<queue, meshes, pipeline, pc, buffers, model, last, prev, anyParsed>>

Next ==
    \/ CallWithObj
    \/ CallWithObjPath
    \/ CallBuild
    \/ CallDraw
    \/ CallDrawDrawable

Spec == Init /\ [][Next]_vars

----------------------------------------------------------------------------
(* Properties *)

LastCall == Unwrap(last)

\* the last with_* call reached the parser and the parse returned Ok
LastParsed == last # None /\ LastCall.opened /\ LastCall.parse.ok

\* the last with_* call reached the parser and the parse returned Err
LastParseFailed == last # None /\ LastCall.opened /\ ~LastCall.parse.ok

\* the last with_* call was a with_obj_path whose path could not be opened
LastNotOpened == last # None /\ ~LastCall.opened

\* contents of the device buffers the Model refers to
VertexData == buffers[Unwrap(model).vertex_buffer[1]].data
IndexData == buffers[Unwrap(model).index_buffer].data

RECURSIVE VerticesBefore(_, _)
VerticesBefore(ms, j) ==
    IF j <= 1 THEN 0 ELSE VerticesBefore(ms, j - 1) + Len(ms[j - 1].vertices)

RECURSIVE IndicesBefore(_, _)
IndicesBefore(ms, j) ==
    IF j <= 1 THEN 0 ELSE IndicesBefore(ms, j - 1) + Len(ms[j - 1].indices)

\* C1: as long as no with_obj / with_obj_path call has parsed successfully
\* (also when no call was made), nothing is uploaded and no Model exists, and
\* build() can only end in Err(MissingMeshes).
C1_NoParseMissingMeshes ==
    ~anyParsed =>
        /\ buffers = << >>
        /\ IsNone(model)
        /\ pc \in {"building", "missing"}

C1_Witness ==
    /\ ~anyParsed
    /\ LastParseFailed
    /\ pc = "missing"

\* C2: with_obj replaces: when the builder held meshes and a with_obj call then
\* parses successfully into meshes B, the builder holds exactly B and build()
\* uploads exactly B's vertices and indices (B = 2 vertices / indices [0,1]
\* gives 2 vertices and indices [0,1]).
C2_Replace ==
    (LastParsed /\ LastCall.returned /\ ~IsNone(prev)) =>
        LET B == CollectMeshes(LastCall.parse.objects).value
        IN  /\ meshes = Some(B)
            /\ pc = "built" =>
                  /\ VertexData = FlattenVertices(B)
                  /\ IndexData = FlattenIndices(B)
                  /\ LastCall.parse.objects = <<SrcLine>> =>
                        Len(VertexData) = 2 /\ IndexData = <<0, 1>>

C2_Witness ==
    /\ prev = Some(3)
    /\ LastParsed
    /\ LastCall.parse.objects = <<SrcLine>>
    /\ pc = "built"
    /\ Len(VertexData) = 2
    /\ IndexData = <<0, 1>>

\* C3: after a with_obj call whose parse failed the builder has no meshes,
\* whatever it held before, and build() ends in Err(MissingMeshes) with no
\* Model and no upload.
C3_ParseFailureClears ==
    LastParseFailed =>
        /\ IsNone(meshes)
        /\ pc \in {"building", "missing"}
        /\ IsNone(model)
        /\ buffers = << >>

C3_Witness ==
    /\ LastParseFailed
    /\ ~IsNone(prev)
    /\ pc = "missing"

\* C4: a with_obj_path call whose path cannot be opened returns (it does not
\* panic) and leaves meshes, queue and pipeline as they were.
C4_OpenFailureUnchanged ==
    [][(/\ pc = "building"
        /\ last' # None
        /\ ~Unwrap(last').opened
        /\ ~(last' = last /\ pc' # "building"))
       => (/\ pc' = "building"
           /\ Unwrap(last').returned
           /\ meshes' = meshes
           /\ queue' = queue
           /\ pipeline' = pipeline
           /\ buffers' = buffers
           /\ model' = model)]_vars

C4_Witness ==
    /\ LastNotOpened
    /\ ~IsNone(meshes)
    /\ pc = "built"
    /\ Len(VertexData) > 0
    /\ VertexData = FlattenVertices(Unwrap(meshes))

\* C5: build() uploads one vertex buffer holding the meshes' vertices and one
\* index buffer holding the meshes' indices, concatenated in mesh order, each
\* mesh's elements in their order and the index values as they are; a single
\* mesh of 4 vertices with indices [0,1,2,2,3,0] gives a vertex buffer of length
\* 4 and the index buffer [0,1,2,2,3,0].
C5_Flatten ==
    pc = "built" =>
        LET ms == Unwrap(meshes)
            n  == Len(ms)
        IN  /\ Len(buffers) = 2
            /\ buffers[Unwrap(model).vertex_buffer[1]].usage = "vertex_buffer"
            /\ buffers[Unwrap(model).index_buffer].usage = "index_buffer"
            /\ Len(VertexData) = VerticesBefore(ms, n + 1)
            /\ Len(IndexData) = IndicesBefore(ms, n + 1)
            /\ \A j \in 1..n :
                  /\ \A k \in 1..Len(ms[j].vertices) :
                        VertexData[VerticesBefore(ms, j) + k] = ms[j].vertices[k]
                  /\ \A k \in 1..Len(ms[j].indices) :
                        IndexData[IndicesBefore(ms, j) + k] = ms[j].indices[k]
            /\ (n = 1 /\ Len(ms[1].vertices) = 4 /\ ms[1].indices = <<0, 1, 2, 2, 3, 0>>) =>
                  Len(VertexData) = 4 /\ IndexData = <<0, 1, 2, 2, 3, 0>>

C5_Witness ==
    /\ pc = "built"
    /\ Len(Unwrap(meshes)) = 2
    /\ Len(Unwrap(meshes)[1].vertices) = 4
    /\ Len(Unwrap(meshes)[2].vertices) = 2
    /\ Len(VertexData) = 6
    /\ IndexData = <<0, 1, 2, 2, 3, 0, 0, 1>>

\* C6: a source mesh with positions.length = normals.length = 3n converts to
\* exactly n vertices, vertex k having position positions[3k..3k+3] and normal
\* normals[3k..3k+3], and to the source's indices unchanged.
C6_Converter ==
    (LastParsed /\ LastCall.returned) =>
        LET objs == LastCall.parse.objects
            ms   == Unwrap(meshes)
        IN  /\ Len(ms) = Len(objs)
            /\ \A j \in 1..Len(objs) :
                  LET src == objs[j]
                      n   == Len(src.positions) \div 3
                  IN  (Len(src.positions) = Len(src.normals) /\ Len(src.positions) = 3 * n) =>
                          /\ Len(ms[j].vertices) = n
                          /\ \A k \in 0..(n - 1) :
                                /\ ms[j].vertices[k + 1].position =
                                      <<src.positions[3 * k + 1], src.positions[3 * k + 2],
                                        src.positions[3 * k + 3]>>
                                /\ ms[j].vertices[k + 1].normals =
                                      <<src.normals[3 * k + 1], src.normals[3 * k + 2],
                                        src.normals[3 * k + 3]>>
                          /\ ms[j].indices = src.indices

C6_Witness ==
    /\ LastParsed
    /\ LastCall.returned
    /\ LastCall.parse.objects = <<SrcQuad, SrcTri>>
    /\ pc = "building"
    /\ Len(Unwrap(meshes)[1].vertices) = 4

\* C7: when every mesh's indices are valid offsets into that mesh's own
\* vertices, every index build() uploads is a valid offset into the vertex
\* sequence the same build() uploads.
C7_IndicesInRange ==
    (/\ pc = "built"
     /\ \A j \in 1..Len(Unwrap(meshes)) :
           \A k \in 1..Len(Unwrap(meshes)[j].indices) :
              Unwrap(meshes)[j].indices[k] < Len(Unwrap(meshes)[j].vertices))
    => \A k \in 1..Len(IndexData) :
          IndexData[k] >= 0 /\ IndexData[k] < Len(VertexData)

C7_Witness ==
    /\ pc = "built"
    /\ LastParsed
    /\ LastCall.parse.objects = <<SrcTri, SrcLine>>
    /\ IndexData = <<0, 1, 2, 0, 1>>
    /\ Len(VertexData) = 5

\* C8: draws leave the Model and its buffers as build() made them, and every
\* draw that returned Ok recorded one indexed draw with the Model's pipeline,
\* vertex buffers and index buffer and with the descriptor sets of that call.
C8_DrawLeavesModel ==
    pc = "built" =>
        /\ model = Build(Self, << >>, "ok").model
        /\ buffers = Build(Self, << >>, "ok").buffers
        /\ ~IsNone(cmd_buf) =>
              LET cmd == Unwrap(cmd_buf)
                  m   == Unwrap(model)
              IN  /\ Len(cmd) = Len(drawn)
                  /\ \A i \in 1..Len(cmd) :
                        /\ cmd[i].pipeline = m.pipeline
                        /\ cmd[i].vertex_buffer = m.vertex_buffer
                        /\ cmd[i].index_buffer = m.index_buffer
                        /\ cmd[i].sets = drawn[i]

C8_Witness ==
    /\ pc = "built"
    /\ ~IsNone(cmd_buf)
    /\ Len(Unwrap(cmd_buf)) = 2
    /\ drawn = <<"s1", "s2">>
    /\ Unwrap(cmd_buf)[1].sets = "s1"
    /\ Unwrap(cmd_buf)[2].sets = "s2"
    /\ Unwrap(cmd_buf)[1].vertex_buffer = Unwrap(cmd_buf)[2].vertex_buffer
    /\ Unwrap(cmd_buf)[1].index_buffer = Unwrap(cmd_buf)[2].index_buffer
    /\ Unwrap(cmd_buf)[1].pipeline = Unwrap(cmd_buf)[2].pipeline

\* C9: when a parsed sub-mesh has positions.length # normals.length the
\* with_obj call panics: it returns no builder, stores no meshes, and nothing
\* is built from it.
C9_MismatchPanics ==
    (/\ LastParsed
     /\ \E j \in 1..Len(LastCall.parse.objects) :
           Len(LastCall.parse.objects[j].positions) #
              Len(LastCall.parse.objects[j].normals))
    => /\ pc = "panicked"
       /\ ~LastCall.returned
       /\ Held(meshes) = prev
       /\ IsNone(model)
       /\ buffers = << >>

C9_Witness ==
    /\ LastParsed
    /\ LastCall.parse.objects = <<SrcTri, SrcLongNormals>>
    /\ pc = "panicked"

\* C10: build() ends in Err(MissingMeshes) only when the builder's meshes are
\* none; after a with_obj call that parsed successfully, also into zero
\* sub-meshes, build() uploads the vertex and index sequences and returns a
\* Model with the builder's pipeline (or panics in an upload).
C10_MissingOnlyIfNone ==
    /\ pc = "missing" => IsNone(meshes)
    /\ (LastParsed /\ LastCall.returned) => pc \in {"building", "built", "panicked"}
    /\ (LastParsed /\ LastCall.returned /\ pc = "built") =>
          /\ Unwrap(model).pipeline = pipeline
          /\ VertexData = FlattenVertices(CollectMeshes(LastCall.parse.objects).value)
          /\ IndexData = FlattenIndices(CollectMeshes(LastCall.parse.objects).value)

C10_Witness ==
    /\ LastParsed
    /\ LastCall.parse.objects = << >>
    /\ meshes = Some(<< >>)
    /\ pc = "built"
    /\ VertexData = << >>
    /\ IndexData = << >>
    /\ Unwrap(model).pipeline = pipeline

====
